---- MODULE Spec2Model ----
(***************************************************************************)
(* Model of src/broadcast_mirror.py: one run of main(), which mirrors a    *)
(* broadcast tournament from the source service to a local instance.       *)
(*                                                                         *)
(* main() is a single sequential thread.  Its state changes only when it   *)
(* talks to a remote service, so the model has one action per remote call  *)
(* (the call together with all the local processing main() does up to the  *)
(* next remote call), one for the credential check at the start and one    *)
(* for the final summary.  Every remote call may succeed, with any         *)
(* response of a bounded set, or come back with a non-success status, in   *)
(* which case r.raise_for_status() raises and, main() catching nothing,    *)
(* the interpreter prints a traceback and exits with status 1.             *)
(*                                                                         *)
(* JSON values are modelled as strings: NoneV stands for Python's None     *)
(* (what dict.get returns for a missing key), "" for the empty string,     *)
(* "True" / "False" for the booleans.  A key that is read with a default   *)
(* (dict.get(k, default)) is an optional value: Nothing when the key is    *)
(* missing, Some(v) when it is there.  A dict is a function on its keys, a *)
(* text a sequence of code points, a request body a sequence of bytes.     *)
(* Of the progress messages only "Creating round {idx}" (line 176) is      *)
(* kept, because it tells which round the messages after it belong to;     *)
(* the others (lines 36, 46, 167, 188, 192) and the pacing delay           *)
(* time.sleep(1) (line 190) change nothing that is modelled.               *)
(***************************************************************************)
EXTENDS Integers, Sequences, FiniteSets, TLC

VARIABLES
    pc,              \* position of main(): the next step to run
    local_token,     \* os.environ.get("LOCAL_LICHESS_TOKEN")           (l.147)
    tour,            \* fetch_broadcast_tournament's result              (l.161)
    local_tour_id,   \* local_tour.get("tour", {}).get("id")            (l.163)
    idx,             \* number of source rounds the loop has taken       (l.174)
    local_round,     \* create_local_round's result, this iteration      (l.177)
    local_round_id,  \* the identifier resolved from local_round         (l.180)
    pgn,             \* fetch_round_pgn's result, this iteration         (l.189)
    created_rounds,  \* the list of per-round outcome records            (l.173)
    calls,           \* every remote call issued so far, in order
    dest,            \* resources the destination service has created
    out,             \* what the run printed (stdout and stderr), as tags
    summary,         \* the summary objects printed (l.203-208)
    exit_code        \* process exit status, meaningful once pc = "exited"

vars == <<pc, local_token, tour, local_tour_id, idx, local_round,
          local_round_id, pgn, created_rounds, calls, dest, out, summary,
          exit_code>>

----------------------------------------------------------------------------
(* Bounds of the model *)

\* Longest source round list a fetched tournament carries.
MaxRounds == 2

----------------------------------------------------------------------------
(* Values *)

NoneV == "None"

\* Python truthiness of a JSON value: None, False and "" are falsy.
Truthy(v) == v \notin {NoneV, "False", ""}

\* A JSON boolean flag: absent (None), false or true.
Flags == {NoneV, "False", "True"}

\* An optional value: a key of a JSON object that may be missing.
Nothing == <<>>
Some(v) == <<v>>

\* d.get(k, default) for a key modelled as an optional value.
OptGet(o, default) == IF Len(o) = 0 THEN default ELSE o[1]

\* The dict without keys.
EmptyDict == [k \in {} |-> NoneV]

\* d.get(k, default) for a dict modelled as a function on its keys.
DictGet(d, k, default) == IF k \in DOMAIN d THEN d[k] ELSE default

\* Identifier the source service gave its i-th round.
SourceRoundId(i) == "r" \o ToString(i)

\* PGN text the source service serves for its i-th round in the runs that
\* do not vary the text: "[i]" as code points.
SourcePgn(i) == <<91, 48 + i, 93>>

\* The PGN texts fetch_round_pgn may return for the i-th round.
SourcePgns(i) == {SourcePgn(i)}

\* A source round as the tournament JSON carries it, without the optional
\* keys name, rated and customScoring.
SourceRounds(i) ==
    [id : {SourceRoundId(i)}, finished : Flags, ongoing : Flags,
     name : {Nothing}, rated : {Nothing}, customScoring : {Nothing}]

\* Round lists of length n whose i-th element is drawn from R[i].
RoundListsOf(R, n) ==
    { s \in [1..n -> UNION { R[i] : i \in 1..n }] :
        \A i \in 1..n : s[i] \in R[i] }

\* Round lists of length n: the i-th element is a source round i.
RoundLists(n) == RoundListsOf([i \in 1..MaxRounds |-> SourceRounds(i)], n)

\* Tournament JSON documents the source may return: the "rounds" key may be
\* missing, and its list may be empty.  "tour" is the nested object that
\* holds the tournament's own fields, "tiebreaks" the top-level key of that
\* name.
SourceTournaments ==
    { [has_rounds |-> FALSE, rounds |-> <<>>,
       tour |-> [tiebreaks |-> Nothing], tiebreaks |-> Nothing] } \cup
    { [has_rounds |-> TRUE, rounds |-> s,
       tour |-> [tiebreaks |-> Nothing], tiebreaks |-> Nothing] :
        s \in UNION { RoundLists(n) : n \in 0..MaxRounds } }

\* Values of LOCAL_LICHESS_TOKEN: unset, empty, set.
Tokens == {NoneV, "", "tok"}

\* tour.id of the destination's tournament-creation response: missing, empty
\* or an identifier.
TournamentResponses == [tour_id : {NoneV, "", "lt1"}]

\* The destination's round-creation response for the i-th round: a nested
\* round.id and a top-level id, each missing, empty or an identifier.
RoundResponses(i) ==
    [round_id : {NoneV, "", "lr" \o ToString(i)},
     id       : {NoneV, "", "lx" \o ToString(i)}]

\* The destination's push response.
PushResponses == {"push-ok"}

----------------------------------------------------------------------------
(* Inputs of the runs that vary what is forwarded (metadata and PGN text)  *)
(* and keep the destination's round-creation responses well formed        *)

\* customScoring tables of a source round: key missing, empty table, a table
\* with one cell, a table with a colour that has no cells, a full table.
ScoringTables ==
    { Nothing,
      Some(EmptyDict),
      Some([white |-> [win |-> "1"]]),
      Some([white |-> EmptyDict, black |-> [draw |-> "0.5"]]),
      Some([white |-> [win |-> "3", draw |-> "1"],
            black |-> [win |-> "4", draw |-> "2"]]) }

\* Source rounds that are pushed (finished, not ongoing) or skipped (not
\* finished), with any of the customScoring tables.
DataRounds(i) ==
    [id : {SourceRoundId(i)}, finished : {"True", "False"}, ongoing : {"False"},
     name : {Nothing}, rated : {Nothing}, customScoring : ScoringTables]

\* Tournament documents with one round at least, whose tiebreak list is
\* missing or present inside "tour" and missing or present at the top level.
DataTournaments ==
    { [has_rounds |-> TRUE, rounds |-> s,
       tour |-> [tiebreaks |-> nested], tiebreaks |-> top] :
        s \in UNION { RoundListsOf([i \in 1..MaxRounds |-> DataRounds(i)], n) :
                         n \in 1..MaxRounds },
        nested \in {Nothing, Some(<<"buchholz", "sonneborn">>)},
        top \in {Nothing, Some(<<"sonneborn">>)} }

\* PGN texts: empty, ASCII only, and one with code points of two, three and
\* four UTF-8 bytes ("e" acute, the euro sign, U+1F600) that names round i.
DataPgns(i) ==
    { <<>>, <<49, 45, 48>>, <<48 + i, 233, 8364, 128512>> }

\* Well-formed round-creation responses: the nested round.id alone.
DataRoundResponses(i) ==
    { [round_id |-> "lr" \o ToString(i), id |-> NoneV] }

----------------------------------------------------------------------------
(* The decisions main() takes *)

\* Mutant: the check tests for None alone, so an empty credential passes.
TokenMissing_none_only(token) == token = NoneV

\* if not local_token (l.151)
TokenMissing(token) == ~Truthy(token)

\* Mutant: the identifier is read from the top level of the response, where
\* the destination does not put it.
ResolveLocalTourId_top(local_tour) == NoneV

\* local_tour.get("tour", {}).get("id") (l.163)
ResolveLocalTourId(local_tour) == local_tour.tour_id

\* Mutant: the check tests for None alone, so an empty identifier passes.
TourIdMissing_none_only(id) == id = NoneV

\* Mutant: the check is left out.
TourIdMissing_never(id) == FALSE

\* if not local_tour_id (l.164)
TourIdMissing(id) == ~Truthy(id)

\* tour.get("rounds", []) (l.169)
source_rounds(t) == IF t.has_rounds THEN t.rounds ELSE <<>>

\* Mutant: the top-level id is preferred to the nested round.id.
ResolveLocalRoundId_top_first(lr) ==
    IF Truthy(lr.id) THEN lr.id ELSE lr.round_id

\* local_round.get("round", {}).get("id") or local_round.get("id") (l.180):
\* Python's `a or b` is a when a is truthy and b otherwise.
ResolveLocalRoundId(lr) ==
    IF Truthy(lr.round_id) THEN lr.round_id ELSE lr.id

\* Mutant: the check tests for None alone, so an empty identifier passes.
RoundIdMissing_none_only(id) == id = NoneV

\* Mutant: the check is left out.
RoundIdMissing_never(id) == FALSE

\* if not local_round_id (l.181)
RoundIdMissing(id) == ~Truthy(id)

\* Mutant: the ongoing test is inverted.
SkipPush_not_ongoing(src_round) ==
    ~Truthy(src_round.finished) \/ ~Truthy(src_round.ongoing)

\* Mutant: the finished test is left out.
SkipPush_ongoing_only(src_round) == Truthy(src_round.ongoing)

\* Mutant: the ongoing test is left out.
SkipPush_finished_only(src_round) == ~Truthy(src_round.finished)

\* elif not src_round.get("finished") or src_round.get("ongoing") (l.184)
SkipPush(src_round) ==
    ~Truthy(src_round.finished) \/ Truthy(src_round.ongoing)

\* Mutant: the cell is looked up under "win" whatever the result asked for.
ScoringCell_win_only(customScoring, color, result) ==
    DictGet(DictGet(customScoring, color, EmptyDict), "win", NoneV)

\* customScoring.get(color, {}).get(result, None) (l.112)
ScoringCell(customScoring, color, result) ==
    DictGet(DictGet(customScoring, color, EmptyDict), result, NoneV)

\* key = f"customScoring.{color}.{result}" (l.111)
ScoringKey(color, result) == "customScoring." \o color \o "." \o result

\* for color in ["white", "black"]: for result in ["win", "draw"] (l.109-110)
ScoringCells == {"white", "black"} \X {"win", "draw"}

\* if customScoring (l.108), customScoring being
\* round.get("customScoring", {}) (l.100): a dict is truthy when it has keys.
AddScoring(round) == DOMAIN OptGet(round.customScoring, EmptyDict) # {}

\* The form create_local_round posts (l.98-112).  `scoring` holds the keys
\* the loop of l.109-112 adds to the form, none when it does not run.
RoundForm(round, t) ==
    LET name          == OptGet(round.name, "Round")
        rated         == OptGet(round.rated, "True")
        customScoring == OptGet(round.customScoring, EmptyDict)
        tiebreaks     == OptGet(t.tiebreaks, <<>>)
    IN  [name       |-> name,
         syncSource |-> "push",
         rated      |-> IF Truthy(rated) THEN "true" ELSE "false",
         tiebreaks  |-> tiebreaks,
         scoring    |->
             IF AddScoring(round)
             THEN [key \in { ScoringKey(c[1], c[2]) : c \in ScoringCells } |->
                     LET c == CHOOSE c \in ScoringCells :
                                  ScoringKey(c[1], c[2]) = key
                     IN  ScoringCell(customScoring, c[1], c[2])]
             ELSE EmptyDict]

\* Mutant: every code point is sent as one byte, as Latin-1 would.
Utf8Bytes_one_byte(c) == <<c % 256>>

\* The UTF-8 encoding of one code point.
Utf8Bytes(c) ==
    IF c < 128 THEN <<c>>
    ELSE IF c < 2048 THEN <<192 + (c \div 64), 128 + (c % 64)>>
    ELSE IF c < 65536
    THEN <<224 + (c \div 4096), 128 + ((c \div 64) % 64), 128 + (c % 64)>>
    ELSE <<240 + (c \div 262144), 128 + ((c \div 4096) % 64),
           128 + ((c \div 64) % 64), 128 + (c % 64)>>

\* pgn.encode("utf-8") (l.127).  The text is r.text (l.88), which holds no
\* lone surrogate, so the encoding never raises.
RECURSIVE Utf8Encode(_)
Utf8Encode(text) ==
    IF Len(text) = 0 THEN <<>>
    ELSE Utf8Bytes(Head(text)) \o Utf8Encode(Tail(text))

\* Mutant: the two identifiers of the record are swapped.
OutcomeRecord_swapped(src_round_id, lr_id, push_res) ==
    [source_round_id |-> lr_id,
     local_round_id  |-> src_round_id,
     push_result     |-> push_res]

\* The record appended to created_rounds (l.194-200).
OutcomeRecord(src_round_id, lr_id, push_res) ==
    [source_round_id |-> src_round_id,
     local_round_id  |-> lr_id,
     push_result     |-> push_res]

\* print(f"Creating round {idx} on local...") (l.176)
CreatingRound(i) == "creating_round_" \o ToString(i)

\* Mutant: the loop is left after its first round.
LoopPc_first_only(i, rounds) ==
    IF i < Len(rounds) /\ i < 1 THEN "create_round" ELSE "summary"

\* The for loop's head (l.174): with i rounds taken, the next step is the
\* next round's creation call, or the summary once the list is exhausted.
LoopPc(i, rounds) == IF i < Len(rounds) THEN "create_round" ELSE "summary"

\* Mutant: the failed call is made again.
Raise_retry(here, cont) == here

\* Mutant: the failure is swallowed and the run goes on.
Raise_swallow(here, cont) == cont

\* r.raise_for_status() on a non-success response (l.39, 80, 87, 117, 129):
\* the exception is caught nowhere, so the process ends (as it does when
\* r.json() raises on a body that is not JSON).  `here` is the step that made
\* the call and `cont` the step that follows it.
Raise(here, cont) == "exited"

\* One remote call, as the services see it.
Call(op, i, target, body, ok, ret) ==
    [op |-> op, idx |-> i, target |-> target, body |-> body, ok |-> ok,
     ret |-> ret]

\* --tour-id as the operator gave it (l.148).
tour_id == "src1"

----------------------------------------------------------------------------
(* The run *)

Init ==
    /\ pc = "start"
    /\ local_token \in Tokens
    /\ tour = [has_rounds |-> FALSE, rounds |-> <<>>,
               tour |-> [tiebreaks |-> Nothing], tiebreaks |-> Nothing]
    /\ local_tour_id = NoneV
    /\ idx = 0
    /\ local_round = [round_id |-> NoneV, id |-> NoneV]
    /\ local_round_id = NoneV
    /\ pgn = <<>>
    /\ created_rounds = <<>>
    /\ calls = <<>>
    /\ dest = {}
    /\ out = <<>>
    /\ summary = <<>>
    /\ exit_code = 0

\* What an uncaught exception leaves behind when control moves to `target`
\* with `log` printed so far: a traceback and exit status 1 if the process
\* ended there.
Uncaught(log, target) ==
    /\ pc' = target
    /\ out' = IF target = "exited" THEN Append(log, "traceback") ELSE log
    /\ exit_code' = IF target = "exited" THEN 1 ELSE exit_code

\* l.147-159: read the credential; without it, report and exit 1.
CheckToken ==
    /\ pc = "start"
    /\ IF TokenMissing(local_token)
       THEN /\ out' = Append(out, "err_token")
            /\ pc' = "exited"
            /\ exit_code' = 1
       ELSE /\ pc' = "fetch_tour"
            /\ UNCHANGED <<out, exit_code>>
    /\ UNCHANGED <<local_token, tour, local_tour_id, idx, local_round,
                   local_round_id, pgn, created_rounds, calls, dest, summary>>

\* l.161, fetch_broadcast_tournament (l.35-40), the source answering with a
\* document of `tournaments`.
FetchBroadcastTournamentFrom(tournaments) ==
    /\ pc = "fetch_tour"
    /\ \/ \E t \in tournaments :
            /\ calls' = Append(calls,
                   Call("fetch_broadcast_tournament", 0, tour_id, NoneV, TRUE, t))
            /\ tour' = t
            /\ pc' = "create_tour"
            /\ UNCHANGED <<out, exit_code>>
       \/ /\ calls' = Append(calls,
                 Call("fetch_broadcast_tournament", 0, tour_id, NoneV, FALSE, NoneV))
          /\ Uncaught(out, Raise("fetch_tour", "create_tour"))
          /\ UNCHANGED tour
    /\ UNCHANGED <<local_token, local_tour_id, idx, local_round,
                   local_round_id, pgn, created_rounds, dest, summary>>

FetchBroadcastTournament == FetchBroadcastTournamentFrom(SourceTournaments)

\* l.162-171, create_local_tournament (l.43-81): create the tournament,
\* resolve its identifier, exit 1 without one, else enter the loop.
CreateLocalTournament ==
    /\ pc = "create_tour"
    /\ \/ \E r \in TournamentResponses :
            /\ calls' = Append(calls,
                   Call("create_local_tournament", 0, NoneV, NoneV, TRUE, r))
            /\ dest' = dest \cup {[kind |-> "tournament", idx |-> 0]}
            /\ local_tour_id' = ResolveLocalTourId(r)
            /\ IF TourIdMissing(local_tour_id')
               THEN /\ out' = Append(out, "err_tour_id")
                    /\ pc' = "exited"
                    /\ exit_code' = 1
               ELSE /\ out' = IF Len(source_rounds(tour)) = 0
                              THEN Append(out, "no_rounds") ELSE out
                    /\ pc' = LoopPc(0, source_rounds(tour))
                    /\ UNCHANGED exit_code
       \/ /\ calls' = Append(calls,
                 Call("create_local_tournament", 0, NoneV, NoneV, FALSE, NoneV))
          /\ Uncaught(out, Raise("create_tour", LoopPc(0, source_rounds(tour))))
          /\ UNCHANGED <<dest, local_tour_id>>
    /\ UNCHANGED <<local_token, tour, idx, local_round, local_round_id, pgn,
                   created_rounds, summary>>

\* l.174-186, create_local_round (l.91-118): take the next source round,
\* create its local counterpart, resolve the local identifier and apply the
\* skip policy.  The destination answers round i with one of Responses[i].
CreateLocalRoundWith(Responses) ==
    /\ pc = "create_round"
    /\ idx < Len(source_rounds(tour))
    /\ LET rounds    == source_rounds(tour)
           i         == idx + 1
           src_round == rounds[i]
           form      == RoundForm(src_round, tour)
           log       == Append(out, CreatingRound(i))
       IN \/ \E r \in Responses[i] :
               /\ calls' = Append(calls,
                      Call("create_local_round", i, local_tour_id, form, TRUE, r))
               /\ dest' = dest \cup {[kind |-> "round", idx |-> i]}
               /\ idx' = i
               /\ local_round' = r
               /\ local_round_id' = ResolveLocalRoundId(r)
               /\ IF RoundIdMissing(local_round_id')
                  THEN /\ out' = Append(log, "warn_no_round_id")
                       /\ pc' = LoopPc(i, rounds)
                  ELSE IF SkipPush(src_round)
                  THEN /\ out' = Append(log, "skip_not_started")
                       /\ pc' = LoopPc(i, rounds)
                  ELSE /\ out' = log
                       /\ pc' = "fetch_pgn"
               /\ UNCHANGED exit_code
          \/ /\ calls' = Append(calls,
                    Call("create_local_round", i, local_tour_id, form, FALSE, NoneV))
             /\ Uncaught(log, Raise("create_round", LoopPc(i, rounds)))
             /\ idx' = i
             /\ UNCHANGED <<dest, local_round, local_round_id>>
    /\ UNCHANGED <<local_token, tour, local_tour_id, pgn, created_rounds,
                   summary>>

CreateLocalRound ==
    CreateLocalRoundWith([i \in 1..MaxRounds |-> RoundResponses(i)])

\* l.188-190, fetch_round_pgn (l.84-88), the source serving one of the texts
\* Pgns[i] for its i-th round.
FetchRoundPgnFrom(Pgns) ==
    /\ pc = "fetch_pgn"
    /\ LET rounds    == source_rounds(tour)
           src_round == rounds[idx]
       IN \/ \E text \in Pgns[idx] :
               /\ calls' = Append(calls,
                      Call("fetch_round_pgn", idx, src_round.id, NoneV, TRUE,
                           text))
               /\ pgn' = text
               /\ pc' = "push"
               /\ UNCHANGED <<out, exit_code>>
          \/ /\ calls' = Append(calls,
                    Call("fetch_round_pgn", idx, src_round.id, NoneV, FALSE, NoneV))
             /\ Uncaught(out, Raise("fetch_pgn", LoopPc(idx, rounds)))
             /\ UNCHANGED pgn
    /\ UNCHANGED <<local_token, tour, local_tour_id, idx, local_round,
                   local_round_id, created_rounds, dest, summary>>

FetchRoundPgn == FetchRoundPgnFrom([i \in 1..MaxRounds |-> SourcePgns(i)])

\* l.192-200, push_pgn_to_round (l.121-130): push the PGN and record the
\* round's outcome.
PushPgnToRound ==
    /\ pc = "push"
    /\ LET rounds    == source_rounds(tour)
           src_round == rounds[idx]
       IN \/ \E res \in PushResponses :
               /\ calls' = Append(calls,
                      Call("push_pgn_to_round", idx, local_round_id,
                           Utf8Encode(pgn), TRUE, res))
               /\ dest' = dest \cup {[kind |-> "games", idx |-> idx]}
               /\ created_rounds' = Append(created_rounds,
                      OutcomeRecord(src_round.id, local_round_id, res))
               /\ pc' = LoopPc(idx, rounds)
               /\ UNCHANGED <<out, exit_code>>
          \/ /\ calls' = Append(calls,
                    Call("push_pgn_to_round", idx, local_round_id,
                         Utf8Encode(pgn), FALSE, NoneV))
             /\ Uncaught(out, Raise("push", LoopPc(idx, rounds)))
             /\ UNCHANGED <<dest, created_rounds>>
    /\ UNCHANGED <<local_token, tour, local_tour_id, idx, local_round,
                   local_round_id, pgn, summary>>

\* l.202-208: print the summary; main() returns and the process exits 0.
PrintSummary ==
    /\ pc = "summary"
    /\ out' = Append(out, "done_summary")
    /\ summary' = Append(summary,
           [local_tournament_id |-> local_tour_id, rounds |-> created_rounds])
    /\ pc' = "exited"
    /\ exit_code' = 0
    /\ UNCHANGED <<local_token, tour, local_tour_id, idx, local_round,
                   local_round_id, pgn, created_rounds, calls, dest>>

Next ==
    \/ CheckToken
    \/ FetchBroadcastTournament
    \/ CreateLocalTournament
    \/ CreateLocalRound
    \/ FetchRoundPgn
    \/ PushPgnToRound
    \/ PrintSummary

Spec == Init /\ [][Next]_vars

\* The runs that vary what is forwarded: any tournament metadata and PGN
\* text, well-formed round-creation responses.
DataNext ==
    \/ CheckToken
    \/ FetchBroadcastTournamentFrom(DataTournaments)
    \/ CreateLocalTournament
    \/ CreateLocalRoundWith([i \in 1..MaxRounds |-> DataRoundResponses(i)])
    \/ FetchRoundPgnFrom([i \in 1..MaxRounds |-> DataPgns(i)])
    \/ PushPgnToRound
    \/ PrintSummary

DataSpec == Init /\ [][DataNext]_vars

\* main() runs on its own and every remote call returns, with a response or
\* with a failure: a step that can be taken is taken.
FairSpec == Spec /\ WF_vars(Next)

----------------------------------------------------------------------------
(* Vocabulary of the properties *)

\* The source rounds of the run, once the tournament is fetched.
Rounds == source_rounds(tour)

\* Positions in `calls` of the calls of one operation for the i-th round.
CallsOf(op, i) ==
    { k \in 1..Len(calls) : calls[k].op = op /\ calls[k].idx = i }

\* Positions in `calls` of the calls of one operation.
CallsOp(op) == { k \in 1..Len(calls) : calls[k].op = op }

\* The calls that concern single rounds.
RoundOps == {"create_local_round", "fetch_round_pgn", "push_pgn_to_round"}

\* The run has fetched the source tournament.
Fetched == \E k \in CallsOp("fetch_broadcast_tournament") : calls[k].ok

\* The run ended normally: the summary was printed.
Completed == pc = "exited" /\ Len(summary) = 1

\* The round-creation call for round i returned a response carrying a
\* non-empty identifier, nested or at the top level.
UsableLocalRound(i) ==
    \E k \in CallsOf("create_local_round", i) :
        /\ calls[k].ok
        /\ \/ calls[k].ret.round_id \notin {NoneV, ""}
           \/ calls[k].ret.id \notin {NoneV, ""}

\* The tournament-creation call returned a response without a usable tour.id.
TourIdUndetermined ==
    \E k \in CallsOp("create_local_tournament") :
        calls[k].ok /\ calls[k].ret.tour_id \in {NoneV, ""}

\* Some remote call came back with a non-success status.
SomeCallFailed == \E k \in 1..Len(calls) : ~calls[k].ok

FinishedNotOngoing(r) == r.finished = "True" /\ r.ongoing = "False"

\* Exactly one PGN fetch and one push for round i, the fetch first.
OneFetchThenOnePush(i) ==
    /\ Cardinality(CallsOf("fetch_round_pgn", i)) = 1
    /\ Cardinality(CallsOf("push_pgn_to_round", i)) = 1
    /\ \A f \in CallsOf("fetch_round_pgn", i) :
         \A p \in CallsOf("push_pgn_to_round", i) : f < p

----------------------------------------------------------------------------
(* C1 *)

\* C1 as stated, read for the runs that end normally: every source round
\* with finished == true and ongoing == false gets exactly one PGN fetch and
\* exactly one push, the fetch first.
C1_AsStated ==
    Completed =>
        \A i \in 1..Len(Rounds) :
            FinishedNotOngoing(Rounds[i]) => OneFetchThenOnePush(i)

\* C1 (amended): for every source round with finished == true and
\* ongoing == false, at most one PGN fetch and at most one push are issued,
\* and a push only after that round's successful fetch; when the run ends
\* normally and the round's creation call yielded a usable local
\* identifier, exactly one fetch and exactly one push are issued, the fetch
\* before the push.
C1_FinishedRoundFetchedThenPushed ==
    \A i \in 1..Len(Rounds) :
        FinishedNotOngoing(Rounds[i]) =>
            /\ Cardinality(CallsOf("fetch_round_pgn", i)) <= 1
            /\ Cardinality(CallsOf("push_pgn_to_round", i)) <= 1
            /\ \A p \in CallsOf("push_pgn_to_round", i) :
                 \E f \in CallsOf("fetch_round_pgn", i) : f < p /\ calls[f].ok
            /\ (Completed /\ UsableLocalRound(i)) => OneFetchThenOnePush(i)

\* A run that ended normally after fetching and pushing a finished,
\* not-ongoing second round.
C1_Witness ==
    /\ Completed
    /\ Len(Rounds) >= 2
    /\ FinishedNotOngoing(Rounds[2])
    /\ UsableLocalRound(2)
    /\ OneFetchThenOnePush(2)

----------------------------------------------------------------------------
(* C2 *)

\* C2: for every source round whose finished flag is false or absent, no PGN
\* fetch and no push is ever issued, whatever its ongoing flag.
C2_UnfinishedRoundNeverFetchedOrPushed ==
    \A i \in 1..Len(Rounds) :
        Rounds[i].finished \in {"False", NoneV} =>
            /\ CallsOf("fetch_round_pgn", i) = {}
            /\ CallsOf("push_pgn_to_round", i) = {}

\* A run that ended normally although its first round, created with a usable
\* identifier and not ongoing, was not finished, and its second round had the
\* finished flag absent.
C2_Witness ==
    /\ Completed
    /\ Len(Rounds) >= 2
    /\ Rounds[1].finished = "False" /\ Rounds[1].ongoing = "False"
    /\ Rounds[2].finished = NoneV
    /\ UsableLocalRound(1)
    /\ UsableLocalRound(2)

----------------------------------------------------------------------------
(* C3 *)

\* C3: for every source round with finished == true and ongoing == true, no
\* PGN fetch and no push is ever issued.
C3_OngoingRoundNeverFetchedOrPushed ==
    \A i \in 1..Len(Rounds) :
        (Rounds[i].finished = "True" /\ Rounds[i].ongoing = "True") =>
            /\ CallsOf("fetch_round_pgn", i) = {}
            /\ CallsOf("push_pgn_to_round", i) = {}

\* A run that ended normally with a finished and ongoing round that was
\* created with a usable identifier.
C3_Witness ==
    /\ Completed
    /\ \E i \in 1..Len(Rounds) :
         /\ Rounds[i].finished = "True" /\ Rounds[i].ongoing = "True"
         /\ UsableLocalRound(i)

----------------------------------------------------------------------------
(* C4 *)

\* C4: every push call comes after a successful round-creation call for the
\* same source round whose response carried a non-empty identifier, and it
\* is addressed to that identifier.
C4_PushOnlyToCreatedRound ==
    \A p \in CallsOp("push_pgn_to_round") :
        \E c \in CallsOf("create_local_round", calls[p].idx) :
            /\ c < p
            /\ calls[c].ok
            /\ calls[p].target \notin {NoneV, ""}
            /\ calls[p].target \in {calls[c].ret.round_id, calls[c].ret.id}

\* A push was issued for the second round.
C4_Witness == CallsOf("push_pgn_to_round", 2) # {}

----------------------------------------------------------------------------
(* C5 *)

\* C5: at most one push is issued per source round, and a call that failed
\* is never issued again.
C5_NoRetry ==
    /\ \A i \in 1..Len(Rounds) :
         Cardinality(CallsOf("push_pgn_to_round", i)) <= 1
    /\ \A j, k \in 1..Len(calls) :
         (j < k /\ ~calls[j].ok) =>
            ~(calls[k].op = calls[j].op /\ calls[k].idx = calls[j].idx)

\* The push of the second round failed after the first round was pushed.
C5_Witness ==
    /\ \E k \in CallsOf("push_pgn_to_round", 1) : calls[k].ok
    /\ \E k \in CallsOf("push_pgn_to_round", 2) : ~calls[k].ok
    /\ pc = "exited"

----------------------------------------------------------------------------
(* C6 *)

\* C6: with LOCAL_LICHESS_TOKEN missing or empty the run makes no remote
\* call, its only step is the exit, and the exit status is non-zero.
C6_NoTokenNoCall ==
    local_token \in {NoneV, ""} =>
        /\ calls = <<>>
        /\ dest = {}
        /\ pc \in {"start", "exited"}
        /\ pc = "exited" => (exit_code # 0 /\ summary = <<>>)

\* The run exited for want of a credential.
C6_Witness == local_token \in {NoneV, ""} /\ pc = "exited"

----------------------------------------------------------------------------
(* C7 *)

\* C7: when the tournament-creation response carries no usable tour.id, that
\* call is the last one of the run, the process has exited with a non-zero
\* status and no summary is printed.
C7_NoTourIdExits ==
    \A k \in CallsOp("create_local_tournament") :
        (calls[k].ok /\ calls[k].ret.tour_id \in {NoneV, ""}) =>
            /\ k = Len(calls)
            /\ pc = "exited"
            /\ exit_code # 0
            /\ summary = <<>>
            /\ \A j \in 1..Len(calls) : calls[j].op \notin RoundOps

\* The tournament was created without an identifier although the source has
\* a finished round to mirror.
C7_Witness ==
    /\ TourIdUndetermined
    /\ Len(Rounds) >= 1
    /\ FinishedNotOngoing(Rounds[1])

----------------------------------------------------------------------------
(* C8 *)

\* C8 as stated: the exit status is non-zero exactly when the credential is
\* missing or the local tournament identifier is undetermined; every other
\* run exits zero with the summary printed.
C8_AsStated ==
    pc = "exited" =>
        IF local_token \in {NoneV, ""} \/ TourIdUndetermined
        THEN exit_code # 0
        ELSE exit_code = 0 /\ Len(summary) = 1

\* C8 (amended): the exit status is non-zero exactly when the credential is
\* missing, the local tournament identifier is undetermined, or a remote
\* call came back with a non-success status; every other run exits zero
\* with the summary printed last, even if rounds were skipped.
C8_ExitStatus ==
    pc = "exited" =>
        IF local_token \in {NoneV, ""} \/ TourIdUndetermined \/ SomeCallFailed
        THEN exit_code # 0 /\ summary = <<>>
        ELSE /\ exit_code = 0
             /\ Len(summary) = 1
             /\ out[Len(out)] = "done_summary"

\* A run that exited zero with the summary although one round was skipped
\* for want of an identifier and another for not being finished.
C8_Witness ==
    /\ pc = "exited"
    /\ exit_code = 0
    /\ \E k \in 1..Len(out) : out[k] = "warn_no_round_id"
    /\ \E k \in 1..Len(out) : out[k] = "skip_not_started"

----------------------------------------------------------------------------
(* C9 *)

\* C9 as stated, read for the runs in which no remote call fails: a source
\* tournament without rounds ends with the local tournament created, an
\* empty round sequence in the summary and exit status zero.
C9_AsStated ==
    (pc = "exited" /\ Fetched /\ ~SomeCallFailed /\ Len(Rounds) = 0) =>
        /\ [kind |-> "tournament", idx |-> 0] \in dest
        /\ Len(summary) = 1
        /\ summary[1].rounds = <<>>
        /\ exit_code = 0

\* C9 (amended): for a source tournament without rounds (the list absent or
\* empty) no round-creation, PGN-fetch or push call is ever issued; and when
\* the tournament-creation call succeeds with a usable identifier, the only
\* step left is the summary, and the run ends with the local tournament
\* created, a summary holding that identifier and an empty round sequence,
\* and exit status zero.
C9_ZeroRounds ==
    (Fetched /\ Len(Rounds) = 0) =>
        /\ \A k \in 1..Len(calls) : calls[k].op \notin RoundOps
        /\ \A k \in CallsOp("create_local_tournament") :
             (calls[k].ok /\ calls[k].ret.tour_id \notin {NoneV, ""}) =>
                /\ pc \in {"summary", "exited"}
                /\ [kind |-> "tournament", idx |-> 0] \in dest
                /\ pc = "exited" =>
                     /\ exit_code = 0
                     /\ summary = <<[local_tournament_id |-> calls[k].ret.tour_id,
                                     rounds |-> <<>>]>>

\* A run over a tournament whose rounds key is absent ended with the summary.
C9_Witness ==
    /\ Fetched
    /\ ~tour.has_rounds
    /\ Completed

----------------------------------------------------------------------------
(* C10 *)

\* C10: once a remote call has failed it is the last call of the run, the
\* process has exited without a summary, only the five mirroring calls were
\* ever issued (none that undoes one), and everything the earlier calls
\* created is still on the destination.
C10_FailureAborts ==
    \A k \in 1..Len(calls) :
        ~calls[k].ok =>
            /\ k = Len(calls)
            /\ pc = "exited"
            /\ summary = <<>>
            /\ \A j \in 1..Len(calls) :
                 /\ calls[j].op \in RoundOps \cup
                       {"fetch_broadcast_tournament", "create_local_tournament"}
                 /\ (j < k /\ calls[j].op = "create_local_tournament") =>
                       [kind |-> "tournament", idx |-> 0] \in dest
                 /\ (j < k /\ calls[j].op = "create_local_round") =>
                       [kind |-> "round", idx |-> calls[j].idx] \in dest
                 /\ (j < k /\ calls[j].op = "push_pgn_to_round") =>
                       [kind |-> "games", idx |-> calls[j].idx] \in dest

\* The PGN fetch of the first round failed, after the local tournament and
\* the first local round were created and with a second round still to come.
C10_Witness ==
    /\ \E k \in CallsOf("fetch_round_pgn", 1) : ~calls[k].ok
    /\ Len(Rounds) >= 2
    /\ [kind |-> "round", idx |-> 1] \in dest

----------------------------------------------------------------------------
(* Vocabulary of the properties about single rounds *)

\* What the run printed right after announcing round i ("" when nothing
\* yet, or when the round was not announced).
AfterCreating(i) ==
    LET msg == CreatingRound(i)
        at  == { k \in 1..Len(out) : out[k] = msg }
    IN  IF at = {} THEN ""
        ELSE LET k == CHOOSE k \in at : TRUE
             IN  IF k < Len(out) THEN out[k + 1] ELSE ""

\* The round-creation call for round i returned.
Created(i) == \E k \in CallsOf("create_local_round", i) : calls[k].ok

\* The loop is done with round i, or the process ended in it.
RoundEnded(i) ==
    /\ i <= idx
    /\ \/ i < idx
       \/ pc \in {"create_round", "summary", "exited"}

\* The three outcomes of a created round.
SkippedNoId(i) == AfterCreating(i) = "warn_no_round_id"
SkippedNotFinished(i) == AfterCreating(i) = "skip_not_started"
PushAttempted(i) == CallsOf("push_pgn_to_round", i) # {}

\* The run was aborted by the failure of round i's PGN fetch.
AbortedAtFetch(i) ==
    \E f \in CallsOf("fetch_round_pgn", i) :
        ~calls[f].ok /\ f = Len(calls) /\ pc = "exited" /\ summary = <<>>

\* How many of the given conditions hold.
HowMany(conds) == Cardinality({ k \in 1..Len(conds) : conds[k] })

\* The usable identifier of a round-creation response: the nested round.id
\* if it is there and not empty, else the top-level id.
ExpectedRoundId(ret) ==
    IF ret.round_id \notin {NoneV, ""} THEN ret.round_id ELSE ret.id

\* The text a sequence of UTF-8 bytes stands for.
RECURSIVE Utf8Decode(_)
Utf8Decode(b) ==
    IF Len(b) = 0 THEN <<>>
    ELSE IF b[1] < 128 THEN <<b[1]>> \o Utf8Decode(SubSeq(b, 2, Len(b)))
    ELSE IF b[1] < 224
    THEN <<(b[1] - 192) * 64 + (b[2] - 128)>>
         \o Utf8Decode(SubSeq(b, 3, Len(b)))
    ELSE IF b[1] < 240
    THEN <<(b[1] - 224) * 4096 + (b[2] - 128) * 64 + (b[3] - 128)>>
         \o Utf8Decode(SubSeq(b, 4, Len(b)))
    ELSE <<(b[1] - 240) * 262144 + (b[2] - 128) * 4096 + (b[3] - 128) * 64
           + (b[4] - 128)>>
         \o Utf8Decode(SubSeq(b, 5, Len(b)))

----------------------------------------------------------------------------
(* C11 *)

\* C11: when the round-creation response of a round carries no usable
\* identifier, the warning is printed for that round, no PGN fetch and no
\* push is issued for it, no summary entry is recorded for it, and the run
\* goes on: after that call the loop is at the next round's creation or,
\* after the last round, at the summary or past it with the summary printed.
C11_NoRoundIdSkips ==
    \A k \in CallsOp("create_local_round") :
        (/\ calls[k].ok
         /\ calls[k].ret.round_id \in {NoneV, ""}
         /\ calls[k].ret.id \in {NoneV, ""}) =>
            LET i == calls[k].idx
            IN  /\ AfterCreating(i) = "warn_no_round_id"
                /\ CallsOf("fetch_round_pgn", i) = {}
                /\ CallsOf("push_pgn_to_round", i) = {}
                /\ \A e \in 1..Len(created_rounds) :
                     created_rounds[e].source_round_id # Rounds[i].id
                /\ k = Len(calls) =>
                     /\ idx = i
                     /\ IF i < Len(Rounds) THEN pc = "create_round"
                        ELSE pc = "summary" \/ Completed

\* The first round, finished and not ongoing, came back without identifier,
\* and the run went on to push the second round and ended normally.
C11_Witness ==
    /\ Completed
    /\ Len(Rounds) >= 2
    /\ FinishedNotOngoing(Rounds[1])
    /\ SkippedNoId(1)
    /\ \E p \in CallsOf("push_pgn_to_round", 2) : calls[p].ok

----------------------------------------------------------------------------
(* C12 *)

\* The outcome records of the rounds i..n whose push succeeded, in source
\* order.
RECURSIVE PushedFrom(_)
PushedFrom(i) ==
    IF i > Len(Rounds) THEN <<>>
    ELSE LET ok == { p \in CallsOf("push_pgn_to_round", i) : calls[p].ok }
         IN  (IF ok = {} THEN <<>>
              ELSE LET p == CHOOSE p \in ok : TRUE
                   IN  <<[source_round_id |-> Rounds[i].id,
                          local_round_id  |-> calls[p].target,
                          push_result     |-> calls[p].ret]>>)
             \o PushedFrom(i + 1)

\* C12: at normal completion exactly one summary is printed; it holds the
\* local tournament identifier and, in source-round order, exactly one
\* record {source round id, local round id, push result} for each round
\* whose push succeeded, and none for any other round.
C12_SummaryListsPushedRounds ==
    Completed =>
        /\ \E k \in CallsOp("create_local_tournament") :
             calls[k].ok /\ summary[1].local_tournament_id = calls[k].ret.tour_id
        /\ summary[1].rounds = PushedFrom(1)

\* The scenario of the specification: r1 finished and not ongoing, r2 not
\* finished, and a summary with the one entry for r1.
C12_Witness ==
    /\ Completed
    /\ Len(Rounds) = 2
    /\ FinishedNotOngoing(Rounds[1])
    /\ Rounds[2].finished = "False"
    /\ Len(summary[1].rounds) = 1
    /\ summary[1].rounds[1].source_round_id = "r1"

----------------------------------------------------------------------------
(* C13 *)

\* C13 as stated: at normal completion every source round that was created
\* with a usable identifier, pushed or skipped as not finished or ongoing,
\* has an entry in the summary, and the rounds without identifier have none.
C13_AsStated ==
    Completed =>
        \A i \in 1..Len(Rounds) :
            UsableLocalRound(i) <=>
                \E e \in 1..Len(summary[1].rounds) :
                    summary[1].rounds[e].source_round_id = Rounds[i].id

----------------------------------------------------------------------------
(* C17 *)

\* C17 as stated: a created round that has ended has exactly one of the
\* outcomes Skipped-NoId, Skipped-NotFinished and PushAttempted.
C17_AsStated ==
    \A i \in 1..Len(Rounds) :
        (Created(i) /\ RoundEnded(i)) =>
            HowMany(<<SkippedNoId(i), SkippedNotFinished(i),
                      PushAttempted(i)>>) = 1

\* C17 (amended): always, a created round that has ended has exactly one of
\* four outcomes: Skipped-NoId, Skipped-NotFinished, PushAttempted, or the
\* run was aborted by the failure of that round's PGN fetch.  The round is
\* Skipped-NoId exactly when its creation response has no usable
\* identifier, and Skipped-NotFinished exactly when it has one and the round
\* is not finished or is ongoing.
C17_RoundOutcomes ==
    [](
    \A i \in 1..Len(Rounds) :
        (Created(i) /\ RoundEnded(i)) =>
            LET no_id        == SkippedNoId(i)
                not_finished == SkippedNotFinished(i)
                usable       == UsableLocalRound(i)
            IN  /\ HowMany(<<no_id, not_finished, PushAttempted(i),
                             AbortedAtFetch(i)>>) = 1
                /\ no_id <=> ~usable
                /\ not_finished <=>
                     /\ usable
                     /\ \/ Rounds[i].finished \in {NoneV, "False"}
                        \/ Rounds[i].ongoing = "True"
    )

\* The PGN fetch of the first round failed: the round ended without any of
\* the three outcomes.
C17_Witness ==
    /\ Len(Rounds) >= 1
    /\ Created(1)
    /\ RoundEnded(1)
    /\ AbortedAtFetch(1)

----------------------------------------------------------------------------
(* C18 *)

\* C18: at every moment the calls of a run are, in this order: the
\* tournament fetch, the tournament creation, then round by round in source
\* order the round's creation, its PGN fetch and its push.  Each is issued
\* once at most and only after the one before it succeeded; every round
\* creation is addressed to the identifier the tournament creation returned;
\* a call for round i+1 is issued only when round i was created and was
\* either left without a PGN fetch or pushed; and in a run that ends normally
\* every source round, whatever its flags, has its creation call.
C18_SequentialTrace ==
    [](
    /\ \A k \in 1..Len(calls) :
         /\ calls[k].op = "fetch_broadcast_tournament" <=> k = 1
         /\ calls[k].op = "create_local_tournament" <=> k = 2
         /\ k > 1 => calls[k - 1].ok
         /\ calls[k].op \in RoundOps => calls[k].idx \in 1..Len(Rounds)
         /\ calls[k].op = "create_local_round" =>
              /\ calls[k].target = calls[2].ret.tour_id
              /\ calls[k].target \notin {NoneV, ""}
              /\ IF calls[k].idx = 1 THEN k = 3
                 ELSE /\ calls[k - 1].idx = calls[k].idx - 1
                      /\ calls[k - 1].op \in
                            {"create_local_round", "push_pgn_to_round"}
         /\ calls[k].op = "fetch_round_pgn" =>
              /\ calls[k - 1].op = "create_local_round"
              /\ calls[k - 1].idx = calls[k].idx
         /\ calls[k].op = "push_pgn_to_round" =>
              /\ calls[k - 1].op = "fetch_round_pgn"
              /\ calls[k - 1].idx = calls[k].idx
    /\ \A i \in 1..Len(Rounds) :
         /\ Cardinality(CallsOf("create_local_round", i)) <= 1
         /\ Cardinality(CallsOf("fetch_round_pgn", i)) <= 1
         /\ Cardinality(CallsOf("push_pgn_to_round", i)) <= 1
         /\ Completed => Cardinality(CallsOf("create_local_round", i)) = 1
    )

\* A run that ended normally over two rounds, the first pushed and the
\* second, not finished, created all the same.
C18_Witness ==
    /\ Completed
    /\ Len(Rounds) = 2
    /\ PushAttempted(1)
    /\ Rounds[2].finished = NoneV
    /\ Created(2)

----------------------------------------------------------------------------
(* C19 *)

\* The four ways a run ends.
ConfigErrorExit == out = <<"err_token">> /\ calls = <<>> /\ exit_code = 1
MissingTourIdExit ==
    /\ Len(out) > 0 /\ out[Len(out)] = "err_tour_id"
    /\ TourIdUndetermined /\ exit_code = 1
AbortExit ==
    /\ Len(out) > 0 /\ out[Len(out)] = "traceback"
    /\ Len(calls) > 0 /\ ~calls[Len(calls)].ok /\ exit_code = 1
NormalExit ==
    /\ Len(out) > 0 /\ out[Len(out)] = "done_summary"
    /\ Len(summary) = 1 /\ exit_code = 0

\* C19: every run ends; when it has ended it is in exactly one of the four
\* end states (configuration error, missing tournament identifier, abort on
\* a failed call, normal completion); no round is visited twice and the run
\* makes no more calls than two plus three per source round.
C19_Terminates ==
    /\ <>(pc = "exited")
    /\ [](pc = "exited" =>
            HowMany(<<ConfigErrorExit, MissingTourIdExit, AbortExit,
                      NormalExit>>) = 1)
    /\ [](/\ Len(calls) <= 2 + 3 * Len(Rounds)
          /\ idx <= Len(Rounds)
          /\ \A i \in 1..Len(Rounds) :
               Cardinality({ k \in 1..Len(out) : out[k] = CreatingRound(i) })
                   <= 1)

\* A run over two rounds has ended normally.
C19_Witness == pc = "exited" /\ NormalExit /\ Len(Rounds) >= 2 /\ idx = 2

----------------------------------------------------------------------------
(* C20 *)

\* C20: always, the local round identifier is the nested round.id when that
\* is there and not empty, else the top-level id: right after the creation
\* call it is what main() holds, and it is where the round's push goes.  The
\* missing-identifier warning is printed for a round exactly when both are
\* missing or empty, whatever the round's flags; a round with an identifier
\* that is not finished or is ongoing gets the not-started message.
C20_RoundIdResolution ==
    [](
    \A k \in CallsOp("create_local_round") :
        calls[k].ok =>
            LET i    == calls[k].idx
                ret  == calls[k].ret
                none == ret.round_id \in {NoneV, ""} /\ ret.id \in {NoneV, ""}
            IN  /\ k = Len(calls) => local_round_id = ExpectedRoundId(ret)
                /\ \A p \in CallsOf("push_pgn_to_round", i) :
                     calls[p].target = ExpectedRoundId(ret)
                /\ SkippedNoId(i) <=> none
                /\ (~none /\ (Rounds[i].finished \in {NoneV, "False"}
                              \/ Rounds[i].ongoing = "True"))
                      => SkippedNotFinished(i)
    )

\* The first round came back with both identifiers and was pushed to the
\* nested one; the second, not finished, came back without identifier and
\* got the missing-identifier warning.
C20_Witness ==
    /\ Len(Rounds) >= 2
    /\ \E k \in CallsOf("create_local_round", 1) :
         /\ calls[k].ok
         /\ calls[k].ret.round_id = "lr1" /\ calls[k].ret.id = "lx1"
    /\ \E p \in CallsOf("push_pgn_to_round", 1) : calls[p].target = "lr1"
    /\ Rounds[2].finished = "False"
    /\ SkippedNoId(2)

----------------------------------------------------------------------------
(* C14 *)

\* C14: every push call comes right after the successful PGN fetch of the
\* same source round, its body is the UTF-8 encoding of exactly the text
\* that fetch returned, and it is addressed to the identifier that the
\* creation call of that same round returned.
C14_PushCarriesFetchedPgn ==
    \A p \in CallsOp("push_pgn_to_round") :
        /\ p > 1
        /\ calls[p - 1].op = "fetch_round_pgn"
        /\ calls[p - 1].idx = calls[p].idx
        /\ calls[p - 1].ok
        /\ Utf8Decode(calls[p].body) = calls[p - 1].ret
        /\ Len(calls[p].body) >= Len(calls[p - 1].ret)
        /\ \E c \in CallsOf("create_local_round", calls[p].idx) :
             /\ c < p
             /\ calls[c].ok
             /\ calls[p].target = ExpectedRoundId(calls[c].ret)
        /\ \A c \in CallsOp("create_local_round") :
             (calls[c].ok /\ calls[c].idx # calls[p].idx) =>
                 calls[p].target # ExpectedRoundId(calls[c].ret)

\* The second round's push carried the text with multi-byte code points
\* that names round 2, after the first round was pushed with another text.
C14_Witness ==
    /\ \E p \in CallsOf("push_pgn_to_round", 1) :
         calls[p].ok /\ calls[p - 1].ret = <<49, 45, 48>>
    /\ \E p \in CallsOf("push_pgn_to_round", 2) :
         /\ calls[p - 1].ret = <<50, 233, 8364, 128512>>
         /\ Len(calls[p].body) = 10
         /\ calls[p].target = "lr2"

----------------------------------------------------------------------------
(* C15 *)

\* C15 as stated: every round-creation request carries, as its tiebreaks
\* field, the tiebreak list of the source tournament, the one that sits in
\* the "tour" object next to its name, description, info block and
\* team-table flag (empty when the tournament has none).
C15_AsStated ==
    \A k \in CallsOp("create_local_round") :
        calls[k].body.tiebreaks = OptGet(tour.tour.tiebreaks, <<>>)

----------------------------------------------------------------------------
(* C16 *)

\* The name of the form field of a colour and a result.
ScoringField ==
    [white |-> [win  |-> "customScoring.white.win",
                draw |-> "customScoring.white.draw"],
     black |-> [win  |-> "customScoring.black.win",
                draw |-> "customScoring.black.draw"]]

\* The four field names.
ScoringFields ==
    { ScoringField[c][r] : c \in {"white", "black"}, r \in {"win", "draw"} }

\* The request of call k carries the four fields, each with the cell of the
\* round's table for its colour and result, or None where there is none.
CarriesScoring(k, table) ==
    /\ DOMAIN calls[k].body.scoring = ScoringFields
    /\ \A c \in {"white", "black"}, r \in {"win", "draw"} :
         calls[k].body.scoring[ScoringField[c][r]] =
             IF c \in DOMAIN table /\ r \in DOMAIN table[c]
             THEN table[c][r] ELSE NoneV

\* The request of call k carries none of the four fields.
CarriesNoScoring(k) == DOMAIN calls[k].body.scoring = {}

\* C16 as stated: a round-creation request carries the four custom-scoring
\* fields, each with its cell or None, if the source round has a
\* customScoring table, and none of them if it has not.
C16_AsStated ==
    \A k \in CallsOp("create_local_round") :
        LET cs == Rounds[calls[k].idx].customScoring
        IN  IF Len(cs) > 0 THEN CarriesScoring(k, cs[1])
                           ELSE CarriesNoScoring(k)

\* C16 (amended): a round-creation request carries the four custom-scoring
\* fields if and only if the source round has a customScoring table that
\* is not empty; each field then holds the table's cell for its colour and
\* result, or None where the table has none.  A round without the table, or
\* with an empty one, gets none of the four fields.
C16_ScoringFields ==
    \A k \in CallsOp("create_local_round") :
        LET cs == Rounds[calls[k].idx].customScoring
        IN  IF Len(cs) > 0 /\ DOMAIN cs[1] # {}
            THEN CarriesScoring(k, cs[1])
            ELSE CarriesNoScoring(k)

\* A request was sent for a round whose table has a colour without cells
\* and a colour with the draw cell alone.
C16_Witness ==
    \E k \in CallsOp("create_local_round") :
        /\ Rounds[calls[k].idx].customScoring =
               Some([white |-> EmptyDict, black |-> [draw |-> "0.5"]])
        /\ calls[k].body.scoring["customScoring.black.draw"] = "0.5"
        /\ calls[k].body.scoring["customScoring.black.win"] = NoneV

====
